---- MODULE Spec2Model ----
(***************************************************************************)
(* Gallery row-height normaliser (adjustgallery.js, kept as                *)
(* src/unnamed/part_000) and the page script (src/script.js).              *)
(*                                                                         *)
(* Lengths are exact rationals <<n, d>> (d > 0) standing for the doubles   *)
(* the script computes; the unset inline height '' is <<0, 0>>.            *)
(***************************************************************************)
EXTENDS Integers, Sequences, FiniteSets

\* ---- configuration (part_000 lines 12-15) ----
HEIGHT_REDUCTION_DEN == 2
ROW_DETECTION_TOLERANCE == 10
RESIZE_DEBOUNCE_DELAY == 250
MUTATION_ADJUST_DELAY == 100
\* ---- configuration (script.js lines 109 and 122) ----
FALLBACK_DELAY == 1800
ANIMATION_LENGTH == 1700
LIGHTBOX_CLEAR_DELAY == 500

\* ---- bounds of the model ----
NumImages == 4
MaxCols == 2
MaxProbeLen == 5
TimeStep == 125
MaxTime == 500
MaxPending == 3
ShutterStep == 100
MaxShutterTime == 3600
MaxClicks == 3

\* ---- the page: sections, gallery grids and their images ----
NumSections == 3
NumGrids == 3
Sections == 1..NumSections
Grids == 1..NumGrids
Images == 1..NumImages
HomeSection == 1

\* Section 1 (home) holds no gallery; section 2 holds grids 1 and 2, section 3 grid 3.
SectionOfGrid(g) == IF g <= 2 THEN 2 ELSE 3

\* The last two images are the single images of grids 3 and 2; the others fill grid 1.
GridOf(i) == IF i = NumImages THEN 3 ELSE IF i = NumImages - 1 THEN 2 ELSE 1

\* ---- rationals ----
RECURSIVE GCD(_, _)
GCD(a, b) == IF b = 0 THEN a ELSE GCD(b, a % b)

Unset == <<0, 0>>
Zero == <<0, 1>>
Norm(n, d) == LET g == GCD(n, d) IN <<n \div g, d \div g>>
RAdd(a, b) == Norm(a[1] * b[2] + b[1] * a[2], a[2] * b[2])
RLess(a, b) == a[1] * b[2] < b[1] * a[2]
RMax(a, b) == IF RLess(a, b) THEN b ELSE a
IsZero(a) == a[1] = 0

\* Math.round: the nearest integer, halves rounded up.
MathRound(a) == (2 * a[1] + a[2]) \div (2 * a[2])
Abs(x) == IF x < 0 THEN -x ELSE x

VARIABLES
    kind,           \* image -> [natural, w, h]: naturalHeight and the box laid out for height ''
    styleHeight,    \* image -> img.style.height (Unset for '')
    objectFit,      \* image -> img.style.objectFit ("" or "cover")
    cols,           \* images per visual line of a grid at the current window width
    sectionActive,  \* the page sections carrying class 'active'
    linkActive,     \* the nav links carrying class 'active'
    last,           \* history: the kind of the step taken last
    rowsOf,         \* history: grid -> the rows of the last pass, as sorted
    measured,       \* history: image -> the rectangle the last pass read for it
    probe,          \* a sequence of measured rectangles handed to the grouping loop
    probeRows,      \* the rows the grouping loop and the sort made of probe
    prev,           \* history: the pass before a change of layout, for comparing two passes
    isShutterAnimating, \* script.js line 62
    shutterActive,  \* the shutter carries class 'active'
    animStart,      \* when the flap's animation began, -1 when none runs
    flapListeners,  \* the clicks whose animationEndHandler is registered on the flap
    fallbacks,      \* the pending fallback timers: [click, due]
    lightboxVisible,\* the lightbox carries class 'visible'
    lightboxSrc,    \* the image in the lightbox, 0 for none
    closers,        \* the due times of closeLightbox's pending timers
    elems,          \* [shutter, lightbox]: which elements the page has
    shot,           \* history: the accepted clicks and the runs of their handlers
    now,            \* the time in ms
    timers,         \* the pending setTimeout calls: [id, fn, due]
    timeout,        \* debounce's closure variable: a timer id, 0 for undefined
    records,        \* the MutationObserver's queued records: the target sections
    env,            \* [imagesLoaded, observer]: what the runtime provides
    load,           \* image -> "pending", "loaded" or "broken"
    pageLoaded,     \* the window's load event has fired
    isComplete,     \* imagesLoaded has reported the images settled
    stat            \* history: counts of passes and of resize events

\* An image's intrinsic height and the box the browser lays out for it while its
\* inline height is unset: decoded, decoded into a thin strip, broken (a
\* placeholder box), decoded in a column of no width, not decoded yet.
ImageKinds ==
    { [natural |-> 200, w |-> 80, h |-> 60],
      [natural |-> 300, w |-> 80, h |-> 4],
      [natural |-> 0,   w |-> 80, h |-> 4],
      [natural |-> 300, w |-> 0,  h |-> 60],
      [natural |-> 0,   w |-> 80, h |-> 0] }

RECURSIVE Ascending(_)
Ascending(S) ==
    IF S = {} THEN <<>>
    ELSE LET m == CHOOSE x \in S : \A y \in S : x <= y
         IN <<m>> \o Ascending(S \ {m})

\* grid.querySelectorAll(GALLERY_IMAGE_SELECTOR): the grid's images in DOM order.
ImagesIn(g) == Ascending({i \in Images : GridOf(i) = g})

\* ---- the browser's layout: block flow, grids stacked in DOM order, each grid
\* ---- a sequence of lines of `cols` images, a line as tall as its tallest image
Displayed(g) == SectionOfGrid(g) \in sectionActive
\* Grid 1 holds images 1, 2, ... in DOM order; grids 2 and 3 hold one image each.
PosIn(i) == IF GridOf(i) = 1 THEN i ELSE 1
LineOf(i) == (PosIn(i) - 1) \div cols
Rendered(h, i) == IF h[i] # Unset THEN h[i] ELSE <<kind[i].h, 1>>

RECURSIVE MaxRendered(_, _)
MaxRendered(h, S) ==
    IF S = {} THEN Zero
    ELSE LET i == CHOOSE x \in S : TRUE
         IN RMax(Rendered(h, i), MaxRendered(h, S \ {i}))

LineHeight(h, g, ln) == MaxRendered(h, {i \in Images : GridOf(i) = g /\ LineOf(i) = ln})

\* The heights of lines 0 .. n-1 of grid g, summed.
RECURSIVE SumLines(_, _, _)
SumLines(h, g, n) ==
    IF n = 0 THEN Zero ELSE RAdd(SumLines(h, g, n - 1), LineHeight(h, g, n - 1))

NumLines(g) == LET S == {LineOf(i) : i \in {j \in Images : GridOf(j) = g}}
               IN IF S = {} THEN 0 ELSE 1 + CHOOSE m \in S : \A x \in S : x <= m
GridHeight(h, g) == IF Displayed(g) THEN SumLines(h, g, NumLines(g)) ELSE Zero

\* The heights of grids 1 .. n, summed.
RECURSIVE SumGrids(_, _)
SumGrids(h, n) == IF n = 0 THEN Zero ELSE RAdd(SumGrids(h, n - 1), GridHeight(h, n))

GridTop(h, g) == SumGrids(h, g - 1)

NoRect == [top |-> Zero, width |-> 0, height |-> Zero]

\* img.getBoundingClientRect() under inline heights h, in a grid whose top is gtop.
RectAt(h, i, gtop) ==
    IF ~Displayed(GridOf(i)) THEN NoRect
    ELSE [top    |-> RAdd(gtop, SumLines(h, GridOf(i), LineOf(i))),
          width  |-> kind[i].w,
          height |-> Rendered(h, i)]

\* grid.offsetWidth, grid.offsetHeight, grid.getClientRects().length
OffsetWidth(g) == IF Displayed(g) THEN 80 * cols ELSE 0
OffsetHeight(h, g) == MathRound(GridHeight(h, g))
ClientRects(g) == IF Displayed(g) THEN 1 ELSE 0

\* ---- adjustGalleryImageHeights (part_000 lines 27-69) ----

\* The pass without its visibility filter.
IsVisibleAlways(h, g) == TRUE

\* line 29: the filter that keeps the visible grids
IsVisible(h, g) == OffsetWidth(g) # 0 \/ OffsetHeight(h, g) # 0 \/ ClientRects(g) # 0

\* rows.find with the tolerance taken inclusively.
FindRowInclusive(rows, top) ==
    LET hits == {k \in 1..Len(rows) : Abs(rows[k].top - top) <= ROW_DETECTION_TOLERANCE}
    IN IF hits = {} THEN 0 ELSE CHOOSE k \in hits : \A j \in hits : k <= j

\* line 45: rows.find(...), as the index of the first match, 0 for undefined
FindRow(rows, top) ==
    LET hits == {k \in 1..Len(rows) : Abs(rows[k].top - top) < ROW_DETECTION_TOLERANCE}
    IN IF hits = {} THEN 0 ELSE CHOOSE k \in hits : \A j \in hits : k <= j

\* The grouping loop without the test for an empty rectangle.
GroupImageNoSizeCheck(rows, i, rect) ==
    LET top == MathRound(rect.top)
        k == FindRow(rows, top)
    IN IF k # 0 THEN [rows EXCEPT ![k].images = Append(@, i)]
       ELSE Append(rows, [top |-> top, images |-> <<i>>])

\* lines 42-47: one image of the grouping loop
GroupImage(rows, i, rect) ==
    IF IsZero(rect.height) \/ rect.width = 0 THEN rows
    ELSE LET top == MathRound(rect.top)
             k == FindRow(rows, top)
         IN IF k # 0 THEN [rows EXCEPT ![k].images = Append(@, i)]
            ELSE Append(rows, [top |-> top, images |-> <<i>>])

\* lines 40-48: images.forEach over the grouping loop
RECURSIVE GroupRows(_, _, _)
GroupRows(imgs, rectOf, rows) ==
    IF imgs = <<>> THEN rows
    ELSE GroupRows(Tail(imgs), rectOf, GroupImage(rows, Head(imgs), rectOf[Head(imgs)]))

\* line 50: rows.sort((a, b) => a.top - b.top), a stable sort
InsertRow(sorted, r) ==
    LET n == Cardinality({k \in 1..Len(sorted) : sorted[k].top <= r.top})
    IN SubSeq(sorted, 1, n) \o <<r>> \o SubSeq(sorted, n + 1, Len(sorted))

RECURSIVE SortRows(_)
SortRows(rows) ==
    IF rows = <<>> THEN <<>>
    ELSE InsertRow(SortRows(SubSeq(rows, 1, Len(rows) - 1)), rows[Len(rows)])

RECURSIVE NaturalUpTo(_)
NaturalUpTo(n) ==
    IF n = 0 THEN 0
    ELSE (IF kind[n].natural > 0 THEN kind[n].natural ELSE 0) + NaturalUpTo(n - 1)

\* A total that is not taken per row: the natural heights of the whole page.
TotalNaturalHeightOfPage(imgs) == NaturalUpTo(NumImages)

\* lines 54-57: totalNaturalHeight and validImageCount of a row
RECURSIVE TotalNaturalHeight(_)
TotalNaturalHeight(imgs) ==
    IF imgs = <<>> THEN 0
    ELSE (IF kind[Head(imgs)].natural > 0 THEN kind[Head(imgs)].natural ELSE 0)
         + TotalNaturalHeight(Tail(imgs))

\* The average taken over every image of the row.
ValidImageCountAll(imgs) == Len(imgs)

RECURSIVE ValidImageCount(_)
ValidImageCount(imgs) ==
    IF imgs = <<>> THEN 0
    ELSE (IF kind[Head(imgs)].natural > 0 THEN 1 ELSE 0) + ValidImageCount(Tail(imgs))

\* lines 59-60: newHeight = totalNaturalHeight / validImageCount * 0.5
NewHeight(total, count) == Norm(total, count * HEIGHT_REDUCTION_DEN)

InRow(row, i) == \E k \in 1..Len(row.images) : row.images[k] = i

\* The apply loop writing only to the images that entered the average.
ApplyRowValidOnly(st, row) ==
    LET total == TotalNaturalHeight(row.images)
        count == ValidImageCount(row.images)
    IN IF count = 0 THEN st
       ELSE [st EXCEPT
               !.height = [i \in Images |->
                             IF InRow(row, i) /\ kind[i].natural > 0
                             THEN NewHeight(total, count) ELSE @[i]],
               !.fit = [i \in Images |->
                          IF InRow(row, i) /\ kind[i].natural > 0 THEN "cover" ELSE @[i]]]

\* lines 53-66: one row of the calculate-and-apply loop
ApplyRow(st, row) ==
    LET total == TotalNaturalHeight(row.images)
        count == ValidImageCount(row.images)
    IN IF count = 0 THEN st
       ELSE [st EXCEPT
               !.height = [i \in Images |->
                             IF InRow(row, i) THEN NewHeight(total, count) ELSE @[i]],
               !.fit = [i \in Images |-> IF InRow(row, i) THEN "cover" ELSE @[i]]]

\* The apply loop given up at the first row without a valid natural height.
RECURSIVE ApplyRowsStopAtInvalid(_, _)
ApplyRowsStopAtInvalid(st, rows) ==
    IF rows = <<>> \/ ValidImageCount(Head(rows).images) = 0 THEN st
    ELSE ApplyRowsStopAtInvalid(ApplyRow(st, Head(rows)), Tail(rows))

\* lines 53-66: rows.forEach, the return of line 58 ending one row's turn only
RECURSIVE ApplyRows(_, _)
ApplyRows(st, rows) ==
    IF rows = <<>> THEN st ELSE ApplyRows(ApplyRow(st, Head(rows)), Tail(rows))

\* The pass without the reset of the inline heights.
ResetHeightsSkipped(h, g) == h

\* line 38: images.forEach(img => { img.style.height = ''; })
ResetHeights(h, g) == [i \in Images |-> IF GridOf(i) = g THEN Unset ELSE h[i]]

\* lines 34-68: the body of visibleGrids.forEach for one grid. st.rows and
\* st.rect record what the pass grouped and measured.
AdjustGrid(st, g) ==
    IF ImagesIn(g) = <<>> THEN st
    ELSE LET reset == ResetHeights(st.height, g)
             gtop == GridTop(reset, g)
             rectOf == [i \in Images |->
                          IF GridOf(i) = g THEN RectAt(reset, i, gtop) ELSE NoRect]
             rows == SortRows(GroupRows(ImagesIn(g), rectOf, <<>>))
             st1 == [st EXCEPT !.height = reset,
                               !.rows[g] = rows,
                               !.rect = [i \in Images |->
                                           IF GridOf(i) = g THEN rectOf[i] ELSE @[i]],
                               !.seen = @ \cup {i \in Images : GridOf(i) = g}]
         IN ApplyRows(st1, rows)

RECURSIVE AdjustGrids(_, _)
AdjustGrids(st, grids) ==
    IF grids = <<>> THEN st ELSE AdjustGrids(AdjustGrid(st, Head(grids)), Tail(grids))

\* lines 27-69: the pass on inline styles (h, f)
AdjustGalleryImageHeights(h, f) ==
    LET visibleGrids == Ascending({g \in Grids : IsVisible(h, g)})
        st0 == [height |-> h, fit |-> f,
                rows |-> [g \in Grids |-> <<>>],
                rect |-> [i \in Images |-> NoRect],
                seen |-> {}]
    IN IF visibleGrids = <<>> THEN st0 ELSE AdjustGrids(st0, visibleGrids)

\* ---- navigation (script.js lines 25-59) ----
\* One nav link per section, and a last one whose data-page names no element.
Links == 1..(NumSections + 1)
HomeLink == 1
TargetExists(l) == l \in Sections

\* lines 36-56: the links and the sections left active by a click on link l
LinksAfterClick(l) == IF TargetExists(l) THEN {l} ELSE {l, HomeLink}
SectionsAfterClick(l) == IF TargetExists(l) THEN {l} ELSE {HomeSection}

NoRows == [g \in Grids |-> <<>>]
NoMeasure == [i \in Images |-> NoRect]

domVars == <<kind, styleHeight, objectFit, cols, sectionActive, linkActive>>
histVars == <<last, rowsOf, measured>>
probeVars == <<probe, probeRows>>
shutterVars == <<isShutterAnimating, shutterActive, animStart, flapListeners, fallbacks,
                 lightboxVisible, lightboxSrc, closers, elems, shot>>
sideVars == <<probeVars, prev, shutterVars>>
trigVars == <<now, timers, timeout, records, env, load, pageLoaded, isComplete, stat>>
vars == <<domVars, histVars, sideVars, trigVars>>

NoStat ==
    [initial |-> 0, lastResize |-> -1, since |-> 0, inBurst |-> 0, scheduled |-> 0,
     newly |-> FALSE]

NoPrev == [kind |-> <<>>, rows |-> NoRows, height |-> <<>>]

NoShot == [accepted |-> <<>>, byEvent |-> {}, byTimer |-> {}, setter |-> 0, atSet |-> 0,
           lastClick |-> "none"]

\* The shutter and the lightbox at rest (script.js line 62 and the page as loaded).
ShutterIdle ==
    /\ isShutterAnimating = FALSE
    /\ shutterActive = FALSE
    /\ animStart = -1
    /\ flapListeners = {}
    /\ fallbacks = {}
    /\ lightboxVisible = FALSE
    /\ lightboxSrc = 0
    /\ closers = {}
    /\ shot = NoShot

\* No earlier pass is kept for comparison, and the shutter is at rest.
SideIdle ==
    /\ prev = NoPrev
    /\ ShutterIdle
    /\ elems = [shutter |-> TRUE, lightbox |-> TRUE]

\* The scheduler at rest, for the specifications that run no trigger.
TrigIdle ==
    /\ now = 0
    /\ timers = {}
    /\ timeout = 0
    /\ records = <<>>
    /\ env = [imagesLoaded |-> TRUE, observer |-> TRUE]
    /\ load = [i \in Images |-> "loaded"]
    /\ pageLoaded = TRUE
    /\ isComplete = TRUE
    /\ stat = NoStat

\* ---- Spec: the pass over the layouts the page can take ----
Init ==
    /\ kind \in [Images -> ImageKinds]
    /\ styleHeight = [i \in Images |-> Unset]
    /\ objectFit = [i \in Images |-> ""]
    /\ cols = MaxCols
    /\ sectionActive = {HomeSection}
    /\ linkActive = {HomeLink}
    /\ last = "init"
    /\ rowsOf = NoRows
    /\ measured = NoMeasure
    /\ probe = <<>>
    /\ probeRows = <<>>
    /\ SideIdle
    /\ TrigIdle

\* A trigger runs adjustGalleryImageHeights.
Adjust ==
    LET st == AdjustGalleryImageHeights(styleHeight, objectFit)
    IN /\ styleHeight' = st.height
       /\ objectFit' = st.fit
       /\ rowsOf' = st.rows
       /\ measured' = st.rect
       /\ last' = "adjust"
       /\ UNCHANGED <<kind, cols, sectionActive, linkActive, sideVars, trigVars>>

\* The window is resized and the grids flow into another number of columns.
Relayout ==
    /\ \E c \in 1..MaxCols : c # cols /\ cols' = c
    /\ last' = "event"
    /\ rowsOf' = NoRows
    /\ measured' = NoMeasure
    /\ UNCHANGED <<kind, styleHeight, objectFit, sectionActive, linkActive, sideVars, trigVars>>

\* script.js lines 26-58: a click on nav link l switches the section shown.
SwitchSection(l) ==
    /\ l \notin linkActive
    /\ linkActive' = LinksAfterClick(l)
    /\ sectionActive' = SectionsAfterClick(l)
    /\ last' = "event"
    /\ rowsOf' = NoRows
    /\ measured' = NoMeasure
    /\ UNCHANGED <<kind, styleHeight, objectFit, cols, sideVars, trigVars>>

Next == Adjust \/ Relayout \/ (\E l \in Sections : SwitchSection(l))

Spec == Init /\ [][Next]_vars

\* ---- timers (setTimeout, clearTimeout) ----
TimerIds(ts) == {t.id : t \in ts}

\* The handle setTimeout returns: one that no pending timer carries and that
\* differs from the handle debounce still holds.
NewId(ts) ==
    CHOOSE n \in 1..(Cardinality(ts) + 2) :
        /\ n \notin TimerIds(ts) \cup {timeout}
        /\ \A m \in 1..(n - 1) : m \in TimerIds(ts) \cup {timeout}

\* setTimeout that forgets the delay.
SetTimeoutNoDelay(ts, id, fn, delay) == ts \cup {[id |-> id, fn |-> fn, due |-> now]}

SetTimeout(ts, id, fn, delay) == ts \cup {[id |-> id, fn |-> fn, due |-> now + delay]}
ClearTimeout(ts, id) == {t \in ts : t.id # id}

\* debounce without the clearTimeout of line 22.
ExecutedFunctionNoClear(ts, id) == SetTimeout(ts, id, "later", RESIZE_DEBOUNCE_DELAY)

\* part_000 line 22: clearTimeout(timeout); timeout = setTimeout(later, wait)
ExecutedFunction(ts, id) ==
    SetTimeout(ClearTimeout(ts, timeout), id, "later", RESIZE_DEBOUNCE_DELAY)

\* part_000 line 21: later's clearTimeout(timeout), the fired timer t gone
Later(ts, t) == ClearTimeout(ts \ {t}, timeout)

\* ---- the MutationObserver (part_000 lines 98-145) ----
HasGrid(s) == \E g \in Grids : SectionOfGrid(g) = s

\* script.js lines 38 and 46/53: classList.remove on every section, then
\* classList.add on the one shown; each call sets the class attribute and
\* queues a record for its section.
RecordsOfClick(l) == Ascending(Sections) \o <<IF TargetExists(l) THEN l ELSE HomeSection>>

\* Records queued as if the observer were installed whatever the runtime offers.
QueuedRecordsAlways(l) == RecordsOfClick(l)

\* part_000 line 100: the sections are observed only when MutationObserver is
\* defined; without it a class change queues nothing.
QueuedRecords(l) == IF env.observer THEN RecordsOfClick(l) ELSE <<>>

\* part_000 lines 105-119: the loop over mutationsList, on the classes as they
\* are when the callback runs
RECURSIVE ObserverLoop(_, _)
ObserverLoop(recs, ts) ==
    IF recs = <<>> THEN ts
    ELSE ObserverLoop(Tail(recs),
            IF Head(recs) \in sectionActive /\ HasGrid(Head(recs))
            THEN SetTimeout(ts, NewId(ts), "adjust", MUTATION_ADJUST_DELAY)
            ELSE ts)

\* ---- SpecLoad: the initial trigger (part_000 lines 73-90) ----
PendingKind == [natural |-> 0, w |-> 80, h |-> 0]
BrokenKind == [natural |-> 0, w |-> 80, h |-> 4]
SourceKind(i) ==
    IF i % 2 = 1 THEN [natural |-> 200, w |-> 80, h |-> 60]
    ELSE [natural |-> 300, w |-> 80, h |-> 4]

AllSettled == \A i \in Images : load[i] # "pending"

\* The image event that settled the last image is still being handled by
\* imagesLoaded, or the observer's microtask is due: nothing else runs first.
Urgent == records # <<>> \/ (env.imagesLoaded /\ AllSettled /\ ~isComplete)

InitLoad ==
    /\ kind = [i \in Images |-> PendingKind]
    /\ styleHeight = [i \in Images |-> Unset]
    /\ objectFit = [i \in Images |-> ""]
    /\ cols = MaxCols
    /\ sectionActive = {HomeSection}
    /\ linkActive = {HomeLink}
    /\ last = "init"
    /\ rowsOf = NoRows
    /\ measured = NoMeasure
    /\ probe = <<>>
    /\ probeRows = <<>>
    /\ SideIdle
    /\ now = 0
    /\ timers = {}
    /\ timeout = 0
    /\ records = <<>>
    /\ env \in [imagesLoaded : BOOLEAN, observer : BOOLEAN]
    /\ load = [i \in Images |-> "pending"]
    /\ pageLoaded = FALSE
    /\ isComplete = FALSE
    /\ stat = NoStat

\* adjustGalleryImageHeights called n times in a row (n is 1 or 2).
RunPass(n) ==
    \E st1 \in {AdjustGalleryImageHeights(styleHeight, objectFit)} :
        \E st \in {IF n = 2 THEN AdjustGalleryImageHeights(st1.height, st1.fit) ELSE st1} :
            /\ styleHeight' = st.height
            /\ objectFit' = st.fit
            /\ rowsOf' = st.rows
            /\ measured' = st.rect
            /\ last' = "adjust"

NoPass ==
    /\ last' = "event"
    /\ rowsOf' = NoRows
    /\ measured' = NoMeasure
    /\ UNCHANGED <<styleHeight, objectFit>>

\* An image's load (ok) or error event.
ImageSettles(i, ok) ==
    /\ ~Urgent
    /\ load[i] = "pending"
    /\ load' = [load EXCEPT ![i] = IF ok THEN "loaded" ELSE "broken"]
    /\ kind' = [kind EXCEPT ![i] = IF ok THEN SourceKind(i) ELSE BrokenKind]
    /\ NoPass
    /\ UNCHANGED <<cols, sectionActive, linkActive, sideVars, now, timers, timeout,
                   records, env, pageLoaded, isComplete, stat>>

\* part_000 lines 76-82: imagesLoaded completes. It emits 'fail' when an image
\* is broken and then 'always', the event of the callback given at line 76;
\* both listeners call adjustGalleryImageHeights.
CompletionCalls == IF \E i \in Images : load[i] = "broken" THEN 2 ELSE 1

ImagesLoadedComplete ==
    /\ records = <<>>
    /\ env.imagesLoaded /\ AllSettled /\ ~isComplete
    /\ isComplete' = TRUE
    /\ RunPass(CompletionCalls)
    /\ stat' = [stat EXCEPT !.initial = @ + CompletionCalls]
    /\ UNCHANGED <<kind, cols, sectionActive, linkActive, sideVars, now, timers, timeout,
                   records, env, load, pageLoaded>>

\* part_000 lines 86-89: the window's load event, after every image has settled.
WindowLoad ==
    /\ ~Urgent
    /\ AllSettled /\ ~pageLoaded
    /\ pageLoaded' = TRUE
    /\ IF env.imagesLoaded
       THEN NoPass /\ UNCHANGED stat
       ELSE RunPass(1) /\ stat' = [stat EXCEPT !.initial = @ + 1]
    /\ UNCHANGED <<kind, cols, sectionActive, linkActive, sideVars, now, timers, timeout,
                   records, env, load, isComplete>>

NextLoad ==
    \/ \E i \in Images, ok \in BOOLEAN : ImageSettles(i, ok)
    \/ ImagesLoadedComplete
    \/ WindowLoad

SpecLoad == InitLoad /\ [][NextLoad]_vars

\* ---- SpecTriggers: resize and visibility triggers, timers and time ----
\* The page has loaded with every image decoded and the home section shown.
InitTriggers ==
    /\ kind = [i \in Images |-> SourceKind(i)]
    /\ styleHeight = [i \in Images |-> Unset]
    /\ objectFit = [i \in Images |-> ""]
    /\ cols = MaxCols
    /\ sectionActive = {HomeSection}
    /\ linkActive = {HomeLink}
    /\ last = "init"
    /\ rowsOf = NoRows
    /\ measured = NoMeasure
    /\ probe = <<>>
    /\ probeRows = <<>>
    /\ SideIdle
    /\ now = 0
    /\ timers = {}
    /\ timeout = 0
    /\ records = <<>>
    /\ env \in [imagesLoaded : {TRUE}, observer : BOOLEAN]
    /\ load = [i \in Images |-> "loaded"]
    /\ pageLoaded = TRUE
    /\ isComplete = TRUE
    /\ stat = [NoStat EXCEPT !.initial = 1]

Tick ==
    /\ ~Urgent
    /\ now + TimeStep <= MaxTime
    /\ now' = now + TimeStep
    /\ UNCHANGED <<domVars, histVars, sideVars, timers, timeout, records, env, load,
                   pageLoaded, isComplete, stat>>

\* part_000 line 94: a resize event runs debouncedAdjustHeights; the grids may
\* flow into another number of columns. One resize event per instant.
ResizeEvent ==
    /\ ~Urgent
    /\ stat.lastResize < now
    /\ now + RESIZE_DEBOUNCE_DELAY <= MaxTime
    /\ LET id == NewId(timers)
       IN /\ timers' = ExecutedFunction(timers, id)
          /\ timeout' = id
    /\ \E c \in 1..MaxCols : cols' = c
    /\ LET fresh == stat.lastResize < 0 \/ now - stat.lastResize >= RESIZE_DEBOUNCE_DELAY
       IN stat' = [stat EXCEPT !.lastResize = now,
                               !.since = 0,
                               !.inBurst = IF fresh THEN 1 ELSE 2]
    /\ NoPass
    /\ UNCHANGED <<kind, sectionActive, linkActive, sideVars, now, records, env, load,
                   pageLoaded, isComplete>>

\* A timer whose delay has elapsed runs: later (line 21) or adjustGalleryImageHeights
\* (line 114). Timers run in the order of their due times.
FireTimer(t) ==
    /\ ~Urgent
    /\ t \in timers
    /\ t.due <= now
    /\ \A u \in timers : t.due <= u.due
    /\ timers' = IF t.fn = "later" THEN Later(timers, t) ELSE timers \ {t}
    /\ RunPass(1)
    /\ stat' = IF t.fn = "later" THEN [stat EXCEPT !.since = @ + 1] ELSE stat
    /\ UNCHANGED <<kind, cols, sectionActive, linkActive, sideVars, now, timeout, records,
                   env, load, pageLoaded, isComplete>>

\* script.js lines 26-58: a click on nav link l; the class changes queue the
\* observer's records when the observer is installed (part_000 line 100).
NavClick(l) ==
    /\ ~Urgent
    /\ l \notin linkActive
    /\ Cardinality(timers) + 2 <= MaxPending
    /\ linkActive' = LinksAfterClick(l)
    /\ sectionActive' = SectionsAfterClick(l)
    /\ records' = QueuedRecords(l)
    /\ stat' = [stat EXCEPT !.newly = TargetExists(l) /\ HasGrid(l) /\ l \notin sectionActive,
                            !.scheduled = 0]
    /\ NoPass
    /\ UNCHANGED <<kind, cols, sideVars, now, timers, timeout, env, load, pageLoaded,
                   isComplete>>

\* part_000 lines 104-120: observerCallback, a microtask after the click handler.
ObserverCallback ==
    /\ records # <<>>
    /\ timers' = ObserverLoop(records, timers)
    /\ records' = <<>>
    /\ stat' = [stat EXCEPT !.scheduled = Cardinality(timers') - Cardinality(timers)]
    /\ last' = "observer"
    /\ UNCHANGED <<domVars, rowsOf, measured, sideVars, now, timeout, env, load,
                   pageLoaded, isComplete>>

NextTriggers ==
    \/ Tick
    \/ ResizeEvent
    \/ \E t \in timers : FireTimer(t)
    \/ \E l \in Links : NavClick(l)
    \/ ObserverCallback

SpecTriggers == InitTriggers /\ [][NextTriggers]_vars

\* FireTimer's guard: some timer is due. A FireTimer step removes a timer, so
\* this is when a FireTimer step that changes the state is possible.
FireEnabled == ~Urgent /\ \E t \in timers : t.due <= now

\* Time passes, queued microtasks run and due timers run: weak fairness of
\* Tick, of ObserverCallback and of FireTimer, the last with its enabling
\* condition written out as FireEnabled.
FairSpecTriggers ==
    /\ SpecTriggers
    /\ WF_vars(Tick)
    /\ WF_vars(ObserverCallback)
    /\ ([]<>(~FireEnabled) \/ []<><<\E t \in timers : FireTimer(t)>>_vars)

\* ---- SpecDegraded: the triggers in a runtime without MutationObserver ----
\* The page is loading: every image but the last has loaded.
InitDegraded ==
    /\ kind = [i \in Images |-> IF i = NumImages THEN PendingKind ELSE SourceKind(i)]
    /\ styleHeight = [i \in Images |-> Unset]
    /\ objectFit = [i \in Images |-> ""]
    /\ cols = MaxCols
    /\ sectionActive = {HomeSection}
    /\ linkActive = {HomeLink}
    /\ last = "init"
    /\ rowsOf = NoRows
    /\ measured = NoMeasure
    /\ probe = <<>>
    /\ probeRows = <<>>
    /\ SideIdle
    /\ now = 0
    /\ timers = {}
    /\ timeout = 0
    /\ records = <<>>
    /\ env \in [imagesLoaded : BOOLEAN, observer : {FALSE}]
    /\ load = [i \in Images |-> IF i = NumImages THEN "pending" ELSE "loaded"]
    /\ pageLoaded = FALSE
    /\ isComplete = FALSE
    /\ stat = NoStat

NextDegraded ==
    \/ \E i \in Images, ok \in BOOLEAN : ImageSettles(i, ok)
    \/ ImagesLoadedComplete
    \/ WindowLoad
    \/ Tick
    \/ ResizeEvent
    \/ \E t \in timers : FireTimer(t)
    \/ \E l \in Links : NavClick(l)

SpecDegraded == InitDegraded /\ [][NextDegraded]_vars

\* The guards of ImagesLoadedComplete and of WindowLoad; each of these steps
\* sets a flag, so the guard is when a step that changes the state is possible.
CompleteEnabled == records = <<>> /\ env.imagesLoaded /\ AllSettled /\ ~isComplete
WindowLoadEnabled == ~Urgent /\ AllSettled /\ ~pageLoaded

\* Time passes, due timers run, and once the images have settled imagesLoaded
\* completes and the window's load event fires: weak fairness of Tick,
\* FireTimer, ImagesLoadedComplete and WindowLoad, the enabling conditions of
\* the last three written out.
FairSpecDegraded ==
    /\ SpecDegraded
    /\ WF_vars(Tick)
    /\ ([]<>(~FireEnabled) \/ []<><<\E t \in timers : FireTimer(t)>>_vars)
    /\ ([]<>(~CompleteEnabled) \/ []<><<ImagesLoadedComplete>>_vars)
    /\ ([]<>(~WindowLoadEnabled) \/ []<><<WindowLoad>>_vars)

\* ---- SpecObserver: the observer under any class change of a section ----
ClassOps == {"add", "remove", "other"}

\* A class change of section s made outside the nav handler: 'active' is added
\* or removed, or another class is toggled. The observer watches the class
\* attribute of every section (part_000 lines 126-136), so each change queues
\* one record.
ClassChange(s, op) ==
    /\ ~Urgent
    /\ Cardinality(timers) + 1 <= MaxPending
    /\ sectionActive' = CASE op = "add" -> sectionActive \cup {s}
                          [] op = "remove" -> sectionActive \ {s}
                          [] OTHER -> sectionActive
    /\ records' = IF env.observer THEN <<s>> ELSE <<>>
    /\ stat' = [stat EXCEPT !.newly = op = "add" /\ HasGrid(s) /\ s \notin sectionActive,
                            !.scheduled = 0]
    /\ NoPass
    /\ UNCHANGED <<kind, cols, linkActive, sideVars, now, timers, timeout, env, load,
                   pageLoaded, isComplete>>

NextObserver ==
    \/ Tick
    \/ \E s \in Sections, op \in ClassOps : ClassChange(s, op)
    \/ \E l \in Links : NavClick(l)
    \/ ObserverCallback
    \/ \E t \in timers : FireTimer(t)

SpecObserver == InitTriggers /\ [][NextObserver]_vars

\* ---- SpecLocal: two passes, the layout changed in between ----
\* The gallery section with two grids is shown, every image rendered.
InitLocal ==
    /\ kind \in [Images -> {k \in ImageKinds : k.w > 0 /\ k.h > 0}]
    /\ styleHeight = [i \in Images |-> Unset]
    /\ objectFit = [i \in Images |-> ""]
    /\ cols \in 1..MaxCols
    /\ sectionActive = {2}
    /\ linkActive = {2}
    /\ last = "init"
    /\ rowsOf = NoRows
    /\ measured = NoMeasure
    /\ probe = <<>>
    /\ probeRows = <<>>
    /\ SideIdle
    /\ TrigIdle

\* The first pass, kept in prev.
FirstPass ==
    /\ last = "init"
    /\ LET st == AdjustGalleryImageHeights(styleHeight, objectFit)
       IN /\ styleHeight' = st.height
          /\ objectFit' = st.fit
          /\ rowsOf' = st.rows
          /\ measured' = st.rect
          /\ prev' = [kind |-> kind, rows |-> st.rows, height |-> st.height]
    /\ last' = "first"
    /\ UNCHANGED <<kind, cols, sectionActive, linkActive, probeVars, shutterVars, trigVars>>

\* A picture without a natural height in a box of its own height (an image
\* that failed to load beside its alternative text, a vector image without
\* intrinsic size).
TallInvalidKind == [natural |-> 0, w |-> 80, h |-> 60]
ChangedKinds == ImageKinds \cup {TallInvalidKind}

\* Between the passes image i shows another picture (natural height and box of
\* kind k) and the window takes c columns.
LayoutChange(i, k, c) ==
    /\ last = "first"
    /\ kind' = [kind EXCEPT ![i] = k]
    /\ cols' = c
    /\ last' = "changed"
    /\ UNCHANGED <<styleHeight, objectFit, sectionActive, linkActive, rowsOf, measured,
                   sideVars, trigVars>>

\* The second pass, on the changed layout.
SecondPass ==
    /\ last = "changed"
    /\ LET st == AdjustGalleryImageHeights(styleHeight, objectFit)
       IN /\ styleHeight' = st.height
          /\ objectFit' = st.fit
          /\ rowsOf' = st.rows
          /\ measured' = st.rect
    /\ last' = "second"
    /\ UNCHANGED <<kind, cols, sectionActive, linkActive, sideVars, trigVars>>

NextLocal ==
    \/ FirstPass
    \/ \E i \in Images, k \in ChangedKinds, c \in 1..MaxCols : LayoutChange(i, k, c)
    \/ SecondPass

SpecLocal == InitLocal /\ [][NextLocal]_vars

\* ---- SpecShutter: the shutter and the lightbox (script.js lines 62-139) ----
Clicks == 1..Len(shot.accepted)
Latest(L) == CHOOSE c \in L : \A d \in L : d <= c

InitShutter ==
    /\ kind = [i \in Images |-> SourceKind(i)]
    /\ styleHeight = [i \in Images |-> Unset]
    /\ objectFit = [i \in Images |-> ""]
    /\ cols = MaxCols
    /\ sectionActive = {2}
    /\ linkActive = {2}
    /\ last = "init"
    /\ rowsOf = NoRows
    /\ measured = NoMeasure
    /\ probe = <<>>
    /\ probeRows = <<>>
    /\ prev = NoPrev
    /\ ShutterIdle
    /\ elems \in [shutter : BOOLEAN, lightbox : BOOLEAN]
    /\ TrigIdle

\* A fallback timer that runs the handler whatever isShutterAnimating is.
FallbackRunsAlways(animating) == TRUE

\* A fallback timer that never runs the handler.
FallbackRunsNever(animating) == FALSE

\* script.js line 105: if (isShutterAnimating)
FallbackRuns(animating) == animating

\* script.js lines 72-83: animationEndHandler, for the handlers L run in the
\* order of their clicks. The body's no-scroll class goes with the lightbox's
\* visible class.
HandlersRun(L) ==
    /\ lightboxSrc' = IF elems.lightbox THEN shot.accepted[Latest(L)] ELSE lightboxSrc
    /\ lightboxVisible' = (elems.lightbox \/ lightboxVisible)
    /\ shutterActive' = FALSE
    /\ isShutterAnimating' = FALSE
    /\ animStart' = -1

ShutterTick ==
    /\ now + ShutterStep <= MaxShutterTime
    /\ now' = now + ShutterStep
    /\ UNCHANGED <<domVars, histVars, sideVars, timers, timeout, records, env, load,
                   pageLoaded, isComplete, stat>>

\* script.js lines 65-110: a click on gallery image i, made while the lightbox
\* does not cover the gallery.
ImageClick(i) ==
    /\ ~lightboxVisible
    /\ Len(shot.accepted) < MaxClicks
    /\ now + FALLBACK_DELAY <= MaxShutterTime
    /\ IF isShutterAnimating \/ ~elems.shutter
       THEN /\ shot' = [shot EXCEPT !.lastClick = "ignored"]
            /\ UNCHANGED <<isShutterAnimating, shutterActive, animStart, flapListeners,
                           fallbacks>>
       ELSE LET c == Len(shot.accepted) + 1
            IN /\ isShutterAnimating' = TRUE
               /\ shutterActive' = TRUE
               /\ animStart' = IF shutterActive THEN animStart ELSE now
               /\ flapListeners' = flapListeners \cup {c}
               /\ fallbacks' = fallbacks \cup {[click |-> c, due |-> now + FALLBACK_DELAY]}
               /\ shot' = [shot EXCEPT !.accepted = Append(@, i), !.lastClick = "accepted"]
    /\ UNCHANGED <<domVars, histVars, probeVars, prev, lightboxVisible, lightboxSrc, closers,
                   elems, trigVars>>

\* The flap's animation ends and its animationend event runs the registered
\* handlers, each registered with once: true (script.js line 87).
AnimationEnd ==
    /\ shutterActive
    /\ animStart >= 0
    /\ now >= animStart + ANIMATION_LENGTH
    /\ IF flapListeners = {}
       THEN /\ animStart' = -1
            /\ UNCHANGED <<lightboxSrc, lightboxVisible, shutterActive, isShutterAnimating, shot>>
       ELSE /\ HandlersRun(flapListeners)
            /\ shot' = [shot EXCEPT !.byEvent = @ \cup flapListeners,
                                    !.setter = IF elems.lightbox THEN Latest(flapListeners) ELSE @,
                                    !.atSet = IF elems.lightbox THEN Len(shot.accepted) ELSE @]
    /\ flapListeners' = {}
    /\ UNCHANGED <<domVars, histVars, probeVars, prev, fallbacks, closers, elems, trigVars>>

\* script.js lines 104-109: the fallback timer f of a click fires.
FallbackFires(f) ==
    /\ f \in fallbacks
    /\ f.due <= now
    /\ \A u \in fallbacks : f.due <= u.due
    /\ fallbacks' = fallbacks \ {f}
    /\ IF FallbackRuns(isShutterAnimating)
       THEN /\ HandlersRun({f.click})
            /\ flapListeners' = flapListeners \ {f.click}
            /\ shot' = [shot EXCEPT !.byTimer = @ \cup {f.click},
                                    !.setter = IF elems.lightbox THEN f.click ELSE @,
                                    !.atSet = IF elems.lightbox THEN Len(shot.accepted) ELSE @]
       ELSE UNCHANGED <<lightboxSrc, lightboxVisible, shutterActive, isShutterAnimating,
                        animStart, flapListeners, shot>>
    /\ UNCHANGED <<domVars, histVars, probeVars, prev, closers, elems, trigVars>>

\* script.js lines 114-139: closeLightbox, from the close button, a click on
\* the lightbox or the Escape key.
CloseLightbox ==
    /\ elems.lightbox
    /\ lightboxVisible
    /\ lightboxVisible' = FALSE
    /\ closers' = closers \cup {now + LIGHTBOX_CLEAR_DELAY}
    /\ UNCHANGED <<domVars, histVars, probeVars, prev, isShutterAnimating, shutterActive,
                   animStart, flapListeners, fallbacks, lightboxSrc, elems, shot, trigVars>>

\* script.js lines 118-122: closeLightbox's timer clears the content of a
\* lightbox that is still closed.
ClearContent(d) ==
    /\ d \in closers
    /\ d <= now
    /\ closers' = closers \ {d}
    /\ lightboxSrc' = IF lightboxVisible THEN lightboxSrc ELSE 0
    /\ UNCHANGED <<domVars, histVars, probeVars, prev, isShutterAnimating, shutterActive,
                   animStart, flapListeners, fallbacks, lightboxVisible, elems, shot, trigVars>>

NextShutter ==
    \/ ShutterTick
    \/ \E i \in Images : ImageClick(i)
    \/ AnimationEnd
    \/ \E f \in fallbacks : FallbackFires(f)
    \/ CloseLightbox
    \/ \E d \in closers : ClearContent(d)

SpecShutter == InitShutter /\ [][NextShutter]_vars

\* Time passes and due fallback timers fire.
FairSpecShutter ==
    /\ SpecShutter
    /\ WF_vars(ShutterTick)
    /\ WF_vars(\E f \in fallbacks : FallbackFires(f))

\* ---- SpecRows: the grouping loop and the sort on arbitrary measured rectangles ----
ProbeTops == { <<100, 1>>, <<102, 1>>, <<108, 1>>, <<219, 2>>, <<300, 1>>, <<305, 1>> }
ProbeRects ==
    { [top |-> t, width |-> 80, height |-> <<60, 1>>] : t \in ProbeTops }
    \cup { [top |-> <<100, 1>>, width |-> 0, height |-> <<60, 1>>],
           [top |-> <<300, 1>>, width |-> 80, height |-> Zero] }

InitRows ==
    /\ probe \in UNION { [1..n -> ProbeRects] : n \in 0..MaxProbeLen }
    /\ probeRows = <<>>
    /\ SideIdle
    /\ kind = [i \in Images |-> CHOOSE k \in ImageKinds : k.natural = 200]
    /\ styleHeight = [i \in Images |-> Unset]
    /\ objectFit = [i \in Images |-> ""]
    /\ cols = MaxCols
    /\ sectionActive = {HomeSection}
    /\ linkActive = {HomeLink}
    /\ last = "init"
    /\ rowsOf = NoRows
    /\ measured = NoMeasure
    /\ TrigIdle

\* part_000 lines 40-50 on the rectangles of probe, taken as images 1 .. Len(probe).
GroupProbe ==
    /\ last = "init"
    /\ probeRows' = SortRows(GroupRows([k \in 1..Len(probe) |-> k], probe, <<>>))
    /\ last' = "grouped"
    /\ UNCHANGED <<domVars, rowsOf, measured, probe, prev, shutterVars, trigVars>>

NextRows == GroupProbe

SpecRows == InitRows /\ [][NextRows]_vars

\* ---- properties of the pass ----
Members(row) == {row.images[k] : k \in 1..Len(row.images)}
Valid(S) == {i \in S : kind[i].natural > 0}

RECURSIVE SumNatural(_)
SumNatural(S) ==
    IF S = {} THEN 0
    ELSE LET i == CHOOSE x \in S : TRUE IN kind[i].natural + SumNatural(S \ {i})

\* h is the mean of the natural heights of the images P, times 0.5
IsHalfMean(h, P) == h # Unset /\ h[1] * 2 * Cardinality(P) = SumNatural(P) * h[2]

AllRows == {<<g, k>> \in Grids \X (1..NumImages) : k <= Len(rowsOf[g])}
RowAt(gk) == rowsOf[gk[1]][gk[2]]
EmptyRect(r) == IsZero(r.height) \/ r.width = 0

\* C1: idempotence. In every state the page reaches (whatever inline heights
\* earlier passes under other layouts left), a second run of the pass on the
\* result of a first run, with the layout unchanged, leaves every image's
\* inline height and fit mode as the first run left them.
C1_Idempotent ==
    LET once == AdjustGalleryImageHeights(styleHeight, objectFit)
        twice == AdjustGalleryImageHeights(once.height, once.fit)
    IN twice.height = once.height /\ twice.fit = once.fit

\* C1 witness: an image carries a stale inline height that the first run replaces
\* by another one.
C1_Witness ==
    LET once == AdjustGalleryImageHeights(styleHeight, objectFit)
    IN \E i \in Images :
          /\ styleHeight[i] # Unset
          /\ once.height[i] # Unset
          /\ once.height[i] # styleHeight[i]

\* C6: height computation. After a pass, in every row that has an image with a
\* positive natural height, every image of the row carries the same inline
\* height, the mean of the row's positive natural heights times 0.5, and fit
\* mode 'cover'; natural heights 200 and 300 give 125.
C6_HeightComputation ==
    last = "adjust" =>
        \A gk \in AllRows :
            LET M == Members(RowAt(gk))
                P == Valid(M)
            IN P # {} =>
                 \A i \in M :
                    /\ IsHalfMean(styleHeight[i], P)
                    /\ objectFit[i] = "cover"
                    /\ (Cardinality(P) = 2 /\ {kind[j].natural : j \in P} = {200, 300})
                          => styleHeight[i] = <<125, 1>>

\* C6 witness: a pass has given a row of natural heights 200 and 300 the height 125.
C6_Witness ==
    /\ last = "adjust"
    /\ \E gk \in AllRows :
          /\ {kind[j].natural : j \in Members(RowAt(gk))} = {200, 300}
          /\ \A i \in Members(RowAt(gk)) : styleHeight[i] = <<125, 1>>

\* C7 as stated: after a pass, an image of a row whose natural height is not
\* positive carries no inline height, while the row's images of positive natural
\* height carry the row height.
C7_InvalidGetNoHeight ==
    last = "adjust" =>
        \A gk \in AllRows :
            LET M == Members(RowAt(gk))
                P == Valid(M)
            IN /\ \A i \in M \ P : styleHeight[i] = Unset
               /\ \A i \in P : IsHalfMean(styleHeight[i], P)

\* C7 amended: an image whose natural height is not positive is left out of its
\* row's average, and receives the row's height and fit mode like the other
\* images of the row when some image of the row has a positive natural height;
\* it receives no height when none has.
C7_InvalidLeftOutOfAverage ==
    last = "adjust" =>
        \A gk \in AllRows :
            LET M == Members(RowAt(gk))
                P == Valid(M)
            IN \A i \in M \ P :
                  IF P = {} THEN styleHeight[i] = Unset
                  ELSE /\ IsHalfMean(styleHeight[i], P)
                       /\ objectFit[i] = "cover"
                       /\ \A j \in P : styleHeight[j] = styleHeight[i]

\* C7 witness: a row holds an image of natural height 0 beside one of positive
\* natural height, and the pass has written the row height to both.
C7_Witness ==
    /\ last = "adjust"
    /\ \E gk \in AllRows :
          LET M == Members(RowAt(gk))
          IN /\ Valid(M) # {}
             /\ M \ Valid(M) # {}
             /\ \A i \in M : styleHeight[i] # Unset

\* C8: unrendered images. After a pass, an image of a displayed grid whose
\* measured width or height was zero is in no row (so every member of every row
\* was measured with a non-empty rectangle, and the averages are taken over
\* those only) and carries no inline height.
C8_UnrenderedExcluded ==
    last = "adjust" =>
        /\ \A i \in Images :
              (Displayed(GridOf(i)) /\ EmptyRect(measured[i])) =>
                  /\ \A gk \in AllRows : i \notin Members(RowAt(gk))
                  /\ styleHeight[i] = Unset
        /\ \A gk \in AllRows : \A j \in Members(RowAt(gk)) : ~EmptyRect(measured[j])

\* C8 witness: a displayed grid holds an image measured with an empty rectangle
\* whose natural height is positive, beside an image that received a height.
C8_Witness ==
    /\ last = "adjust"
    /\ \E i, j \in Images :
          /\ GridOf(i) = GridOf(j)
          /\ Displayed(GridOf(i))
          /\ EmptyRect(measured[i])
          /\ kind[i].natural > 0
          /\ styleHeight[j] # Unset

\* C9: visibility gating. A pass leaves the inline height and the fit mode of
\* every image unchanged in each grid that has zero rendered width, zero
\* rendered height and no client rectangles.
C9_VisibilityGating ==
    [][last' = "adjust" =>
         \A g \in Grids :
            (OffsetWidth(g) = 0 /\ OffsetHeight(styleHeight, g) = 0 /\ ClientRects(g) = 0) =>
                \A i \in Images :
                    GridOf(i) = g =>
                        styleHeight'[i] = styleHeight[i] /\ objectFit'[i] = objectFit[i]]_vars

\* C9 witness: a pass has run while a hidden grid held an image with an inline
\* height and fit mode from an earlier pass, and a displayed grid was adjusted.
C9_Witness ==
    /\ last = "adjust"
    /\ \E i, j \in Images :
          /\ ~Displayed(GridOf(i))
          /\ styleHeight[i] # Unset
          /\ Displayed(GridOf(j))
          /\ styleHeight[j] # Unset

\* ---- properties of the grouping loop ----
\* The integer nearest to x, halves upwards, stated by its bounds.
RoundedTop(x) ==
    CHOOSE t \in {x[1] \div x[2], x[1] \div x[2] + 1} :
        2 * t * x[2] - x[2] <= 2 * x[1] /\ 2 * x[1] < 2 * t * x[2] + x[2]
Creator(row) == row.images[1]

\* C5: row grouping. The rows made of a sequence of measured rectangles are those
\* of the first-match rule: every rendered image is in exactly one row and an
\* unrendered one in none; a row lists its images in DOM order and records the
\* rounded top of its first image; an image lies in the first row, in creation
\* order, whose top differs from its rounded top by less than 10; and the rows are
\* listed by ascending top. Tops 100, 102, 108, 300, 305 give the rows
\* [100, 102, 108] and [300, 305], in that order.
C5_RowGrouping ==
    last = "grouped" =>
        LET n == Len(probe)
            R == probeRows
            t(i) == RoundedTop(probe[i].top)
        IN /\ \A i \in 1..n :
                 Cardinality({k \in 1..Len(R) : i \in Members(R[k])})
                    = IF EmptyRect(probe[i]) THEN 0 ELSE 1
           /\ \A k \in 1..Len(R) :
                 /\ Len(R[k].images) >= 1
                 /\ \A a, b \in 1..Len(R[k].images) : a < b => R[k].images[a] < R[k].images[b]
                 /\ R[k].top = t(Creator(R[k]))
                 /\ \A i \in Members(R[k]) :
                       /\ Abs(R[k].top - t(i)) < 10
                       /\ \A q \in 1..Len(R) :
                             Creator(R[q]) < Creator(R[k]) => Abs(R[q].top - t(i)) >= 10
           /\ \A k \in 1..(Len(R) - 1) : R[k].top < R[k + 1].top
           /\ [k \in 1..n |-> probe[k].top] = << <<100, 1>>, <<102, 1>>, <<108, 1>>, <<300, 1>>, <<305, 1>> >>
                 /\ (\A k \in 1..n : ~EmptyRect(probe[k]))
              => R = << [top |-> 100, images |-> <<1, 2, 3>>], [top |-> 300, images |-> <<4, 5>>] >>

\* C5 witness: the loop has grouped tops 100, 102, 108, 300, 305 into two rows.
C5_Witness ==
    /\ last = "grouped"
    /\ [k \in 1..Len(probe) |-> probe[k].top]
          = << <<100, 1>>, <<102, 1>>, <<108, 1>>, <<300, 1>>, <<305, 1>> >>
    /\ \A k \in 1..Len(probe) : ~EmptyRect(probe[k])
    /\ Len(probeRows) = 2

\* ---- properties of the triggers ----
ResizeTimers == {t \in timers : t.fn = "later"}

\* A resize event that opens a burst: the first one, or one 250 ms or more after
\* the previous event.
BeginsBurst == stat'.lastResize > stat.lastResize /\ stat'.inBurst = 1

\* The resize trigger runs a pass.
ResizePass == stat'.since = stat.since + 1

\* C10: at most one resize-triggered run is pending in every reachable state,
\* and it is the one the last resize event scheduled, held by debounce's
\* timeout and due 250 ms after that event.
C10_AtMostOnePendingResize ==
    /\ Cardinality(ResizeTimers) <= 1
    /\ \A t \in ResizeTimers :
        /\ t.id = timeout
        /\ t.due = stat.lastResize + RESIZE_DEBOUNCE_DELAY

\* C10 witness: a second resize event of a burst has replaced the pending
\* timer of the first while a visibility timer is pending as well.
C10_Witness ==
    /\ stat.inBurst = 2
    /\ Cardinality(ResizeTimers) = 1
    /\ Cardinality(timers) > 1
    /\ last = "event"

\* C2 as the specification states it: every burst of resize events has caused
\* exactly one pass by the time the next burst begins, and the pass runs only
\* once 250 ms have passed since the burst's last event.
C2_ExactlyOnePassPerBurst ==
    [][ /\ (BeginsBurst /\ stat.lastResize >= 0) => stat.since = 1
        /\ ResizePass => (stat.since = 0 /\ now >= stat.lastResize + RESIZE_DEBOUNCE_DELAY)
      ]_vars

\* C2 amended: a burst causes at most one pass, never sooner than 250 ms after
\* its last event; a burst is left without its pass only when the next resize
\* event is handled while its timer is still pending, which cancels it; and
\* after the last resize event the pass does run.
C2_AtMostOnePassPerBurst ==
    /\ [][ /\ (BeginsBurst /\ stat.lastResize >= 0 /\ stat.since # 1) =>
                (stat.since = 0 /\ ResizeTimers # {} /\ ResizeTimers' # ResizeTimers)
           /\ ResizePass =>
                (stat.since = 0 /\ now >= stat.lastResize + RESIZE_DEBOUNCE_DELAY)
         ]_vars
    /\ (stat.lastResize >= 0) ~> (stat.since = 1)

\* C2 witness: a burst of two resize events has had its one pass.
C2_Witness == stat.inBurst = 2 /\ stat.since = 1 /\ last = "adjust" /\ ResizeTimers = {}

\* C3 as the specification states it: once the observer has handled a click
\* that made a previously inactive gallery section active, exactly one pass is
\* scheduled.
C3_ExactlyOneScheduled == (last = "observer" /\ stat.newly) => stat.scheduled = 1

\* C4 as the specification states it: the initial pass runs exactly once, and
\* only after every image has settled.
C4_InitialPassExactlyOnce ==
    /\ stat.initial <= 1
    /\ stat.initial > 0 => AllSettled
    /\ (IF env.imagesLoaded THEN isComplete ELSE pageLoaded) => stat.initial = 1

\* C11: without MutationObserver no visibility trigger exists: a class change
\* queues no record and no click schedules a pass, so the only timers are the
\* resize trigger's; the initial trigger still runs its pass once the images
\* have settled, and a resize event is still followed by its pass.
C11_DegradedRuntime ==
    /\ [](records = <<>> /\ \A t \in timers : t.fn = "later")
    /\ [][sectionActive' # sectionActive => timers' = timers]_vars
    /\ (AllSettled ~> (stat.initial >= 1))
    /\ ((stat.lastResize >= 0) ~> (stat.since = 1))

\* C11 witness: without the observer a gallery section has been activated, and
\* both the initial pass and a resize pass have run.
C11_Witness ==
    /\ ~env.observer
    /\ \E s \in sectionActive : HasGrid(s)
    /\ stat.initial >= 1
    /\ stat.since = 1
    /\ last = "adjust"

\* C12 as the specification states it: the observer schedules a pass only
\* when the class change it handles took a section holding a gallery from
\* inactive to active.
C12_OnlyOnActivation == (last = "observer" /\ stat.scheduled > 0) => stat.newly

\* The rows of the first pass, as pairs <<grid, index>>.
PrevRows == {gk \in Grids \X (1..NumImages) : gk[2] <= Len(prev.rows[gk[1]])}
PrevRowAt(gk) == prev.rows[gk[1]][gk[2]]

\* Row a of the first pass and row b of the second have the same members with
\* the same natural heights.
SameRow(a, b) ==
    /\ Members(PrevRowAt(a)) = Members(RowAt(b))
    /\ \A j \in Members(RowAt(b)) : prev.kind[j].natural = kind[j].natural

\* C13: row locality. When an image's row has the same members with the same
\* natural heights in two passes, the two passes write the same height to the
\* image, whatever changed in other rows and other containers.
C13_RowLocality ==
    last = "second" =>
        \A a \in PrevRows, b \in AllRows :
            SameRow(a, b) => \A i \in Members(RowAt(b)) : styleHeight[i] = prev.height[i]

\* C13 witness: between two passes another row's picture changed and with it
\* that row's height, while a row with a height kept its members and natural
\* heights.
C13_Witness ==
    /\ last = "second"
    /\ \E a \in PrevRows, b \in AllRows :
          /\ SameRow(a, b)
          /\ \A i \in Members(RowAt(b)) : styleHeight[i] # Unset
          /\ \E j \in Images \ Members(RowAt(b)) :
                /\ prev.kind[j].natural # kind[j].natural
                /\ prev.height[j] # styleHeight[j]
                /\ prev.height[j] # Unset
                /\ styleHeight[j] # Unset

\* C14: a row without a positive natural height is skipped. A pass leaves the
\* images of such a row with the unset height of the reset and with the fit
\* mode they had, and gives every other row of every visible container its
\* height and fit mode 'cover'.
C14_InvalidRowSkipped ==
    [][ last' \in {"first", "second"} =>
          \A g \in Grids : \A k \in 1..Len(rowsOf'[g]) :
              LET M == Members(rowsOf'[g][k])
              IN IF Valid(M) = {}
                 THEN \A i \in M : styleHeight'[i] = Unset /\ objectFit'[i] = objectFit[i]
                 ELSE \A i \in M : /\ IsHalfMean(styleHeight'[i], Valid(M))
                                   /\ objectFit'[i] = "cover"
      ]_vars

\* C14 witness: the second pass met a row without a positive natural height,
\* left it with the unset height and the 'cover' of the first pass, and gave a
\* row below it in the same container its height.
C14_Witness ==
    /\ last = "second"
    /\ \E g \in Grids : \E k \in 1..Len(rowsOf[g]) :
          /\ Valid(Members(rowsOf[g][k])) = {}
          /\ \E i \in Members(rowsOf[g][k]) : styleHeight[i] = Unset /\ objectFit[i] = "cover"
          /\ \E q \in (k + 1)..Len(rowsOf[g]) :
                \A j \in Members(rowsOf[g][q]) : styleHeight[j] # Unset

\* C15: the fallback race. A click's handler runs at most once from the
\* animationend event and at most once from the click's fallback timer, and it
\* runs from both only when a later click was accepted after the first run; the
\* interleaving in which it does is reachable (C15_Witness).
C15_DoubleFireNeedsLaterClick ==
    /\ shot.byEvent \cup shot.byTimer \subseteq Clicks
    /\ \A c \in shot.byEvent \cap shot.byTimer : c < Len(shot.accepted)

\* C15 witness: the handler of one click has run from the animationend event
\* and once more from that click's fallback timer.
C15_Witness ==
    /\ shot.byEvent \cap shot.byTimer # {}
    /\ fallbacks = {}

\* C16 as stated: at most one accepted click waits for its handler: at most
\* one animationEndHandler is registered on the flap, and one is registered
\* only while isShutterAnimating is set.
C16_OneTransition ==
    /\ Cardinality(flapListeners) <= 1
    /\ flapListeners # {} => isShutterAnimating

\* C17 as stated: the shutter logic sets the lightbox content only from the
\* handler of the most recently accepted click.
C17_LatestClickShown == shot.setter = shot.atSet

\* C18: the shutter never stays stuck. A fallback timer that fires leaves
\* isShutterAnimating false and the shutter without its active marker; while
\* isShutterAnimating is set the shutter is active and a fallback timer is
\* pending; and isShutterAnimating always returns to false, animationend event
\* or not.
C18_NeverStuck ==
    /\ [][fallbacks' # fallbacks /\ fallbacks' \subseteq fallbacks
            => ~isShutterAnimating' /\ ~shutterActive']_vars
    /\ [](isShutterAnimating = shutterActive)
    /\ [](isShutterAnimating => fallbacks # {})
    /\ (isShutterAnimating ~> ~isShutterAnimating)

\* C18 witness: the animationend event never came for a click, its fallback
\* timer ran the handler, and a later click has been accepted.
C18_Witness ==
    /\ \E c \in shot.byTimer : c \notin shot.byEvent /\ c < Len(shot.accepted)
    /\ shot.byEvent = {}
    /\ shot.lastClick = "accepted"

\* C19 as stated: after any sequence of nav-link clicks at most one page
\* section and at most one nav link carry the active marker.
C19_SingleActiveTab ==
    /\ Cardinality(sectionActive) <= 1
    /\ Cardinality(linkActive) <= 1

====
